---- MODULE Spec2Model ----
(***************************************************************************)
(* Fetch orchestration of the profiling tool: the search view, the Celery  *)
(* scrape tasks of profiles/tasks.py with their retry schedules, the       *)
(* scrapers' save blocks, the unscrape (purge) helpers and the record      *)
(* store (Profile, SocialMediaAccount, RawPost, BehavioralAnalysis).       *)
(*                                                                         *)
(* Granularity.  A view runs as one step.  A scrape task runs as a few     *)
(* steps, cut between the SELECT and the INSERT of the get_or_create /     *)
(* update_or_create calls of the task body, so that two workers can race.  *)
(* A scraper's own save block runs inside the task step that calls it.     *)
(* Time is abstract: a task that asked for a retry may be picked up again  *)
(* at any later step; the countdown it asked for is recorded.              *)
(*                                                                         *)
(* Rows of different (username, platform) pairs are never read or written  *)
(* by the same handler call, so a behaviour follows the traffic of one     *)
(* pair, `key`, drawn in Init.                                             *)
(***************************************************************************)
EXTENDS Integers, Sequences, FiniteSets, TLC

VARIABLES
    key,         \* the (username, platform) pair the behaviour is about
    profiles,    \* Profile rows
    accounts,    \* SocialMediaAccount rows
    posts,       \* RawPost rows
    analyses,    \* ids of the profiles that own a BehavioralAnalysis row
    analysisQ,   \* profile ids with a perform_behavioral_analysis message queued
    jobs,        \* the scrape-task messages, by job id
    calc         \* one evaluation of a computation: its input and its result

vars == <<key, profiles, accounts, posts, analyses, analysisQ, jobs, calc>>

-----------------------------------------------------------------------------
(* Bounds of the model *)

MaxJobs == 2

JobIds == 1..MaxJobs

Handles == {"alice"}
TaskPlatforms == {"Twitter", "TikTok", "Instagram"}
Platforms == TaskPlatforms \cup {"GitHub"}

\* Hash seeds of the worker interpreters (str hashes are salted per interpreter).
WorkerSeeds == {"s1", "s2"}

-----------------------------------------------------------------------------
(* Program constants *)

backoff_base == 60
max_retries_twitter == 3
max_retries_tiktok == 3
max_retries_instagram == 5
rate_limit_wait_time == 600
temporary_wait_min == 60
temporary_wait_max == 180
twitter_prefix_len == 50
tweets_limit == 20

max_retries(p) ==
    CASE p = "Twitter" -> max_retries_twitter
      [] p = "TikTok" -> max_retries_tiktok
      [] OTHER -> max_retries_instagram

\* The values random.randint(60, 180) is sampled at: both ends of the range.
TemporaryWaits == {temporary_wait_min, temporary_wait_max}

-----------------------------------------------------------------------------
(* What a fetcher parses for a handle.  Captions are character sequences.  *)

Caption1 == <<"G", "m">>
Caption2 == <<"o", "k">>

Parsed(h) ==
    [bio |-> "bio", followers |-> 7, following |-> 3, avatar |-> "pic",
     posts |-> <<Caption1, Caption2>>]

-----------------------------------------------------------------------------
(* The record store *)

NoId == 0

\* A fresh primary key: the database never hands out a key again; a key no
\* row and no reference holds any more is indistinguishable from a new one.
FreshId(used) == CHOOSE i \in 1..(Cardinality(used) + 1) : i \notin used

ProfileIds == {r.id : r \in profiles}

UsedProfileIds ==
    ProfileIds \cup {jobs[j].prof : j \in JobIds} \cup analysisQ
        \cup analyses \cup {a.profile : a \in accounts} \cup {x.profile : x \in posts}

ProfileRows(P, h, p) == {r \in P : r.username = h /\ r.platform = p}

\* unique_together left out of Profile.Meta: every insert is accepted.
unique_together_absent(P, h, p) == TRUE

\* Profile.Meta.unique_together: may a row for (username, platform) be inserted?
unique_together_free(P, h, p) == ProfileRows(P, h, p) = {}

NewProfile(id, h, p) ==
    [id |-> id, username |-> h, platform |-> p, avatar_url |-> "None", posts_count |-> 0]

\* Profile.objects.get_or_create(username, platform) run as one statement:
\* the row's id and the table afterwards.
get_or_create_profile(P, h, p, fresh) ==
    IF ProfileRows(P, h, p) # {}
    THEN [id |-> (CHOOSE r \in ProfileRows(P, h, p) : TRUE).id, P |-> P]
    ELSE [id |-> fresh, P |-> P \cup {NewProfile(fresh, h, p)}]

SetProfile(P, id, avatar) ==
    {IF r.id = id THEN [r EXCEPT !.avatar_url = avatar] ELSE r : r \in P}

SetPostsCount(P, id, n) ==
    {IF r.id = id THEN [r EXCEPT !.posts_count = n] ELSE r : r \in P}

AccountRows(A, pid, p) == {a \in A : a.profile = pid /\ a.platform = p}

AccountIds(A) == {a.id : a \in A}

\* Keys of account rows, stored or held by a task that read the row.
UsedAccountIds(A) == AccountIds(A) \cup {jobs[j].acct : j \in JobIds}

NewAccount(id, pid, p, d) ==
    [id |-> id, profile |-> pid, platform |-> p, bio |-> d.bio,
     followers |-> d.followers, following |-> d.following,
     posts_collected |-> d.posts_collected, is_private |-> d.is_private]

\* SocialMediaAccount.objects.update_or_create(profile, platform, defaults=d)
\* run as one statement, on a table with at most one matching row.
update_or_create_account(A, pid, p, d) ==
    IF AccountRows(A, pid, p) = {}
    THEN A \cup {NewAccount(FreshId(UsedAccountIds(A)), pid, p, d)}
    ELSE {IF a \in AccountRows(A, pid, p) THEN NewAccount(a.id, pid, p, d) ELSE a : a \in A}

\* post_id is NULL
NoPostId == <<>>

PostRows(R, pid, p) == {x \in R : x.profile = pid /\ x.platform = p}

NewPost(pid, p, post_id, content) ==
    [profile |-> pid, platform |-> p, post_id |-> post_id, content |-> content]

-----------------------------------------------------------------------------
(* Text helpers of the ingestion paths *)

Lower(ch) ==
    CASE ch = "G" -> "g"
      [] OTHER -> ch

LowerSeq(s) == [i \in 1..Len(s) |-> Lower(s[i])]

Min(a, b) == IF a < b THEN a ELSE b

\* text[:n]
Prefix(s, n) == SubSeq(s, 1, Min(n, Len(s)))

\* content__icontains=t
icontains(s, t) ==
    \E i \in 1..(Len(s) - Len(t) + 1) :
        SubSeq(LowerSeq(s), i, i + Len(t) - 1) = LowerSeq(t)

\* hash(str) of an interpreter whose hash seed is `seed`
hash(s, seed) == <<seed, s>>

-----------------------------------------------------------------------------
(* The scrapers' save blocks.  Each yields the tables afterwards and       *)
(* whether the block raised.                                               *)

RECURSIVE save_tweets(_, _, _)
\* twitter_scrapingbee_scraper: a tweet is created unless a stored post of
\* the profile contains its first 50 characters.
save_tweets(R, pid, tweets) ==
    IF tweets = <<>> THEN R
    ELSE LET text == Head(tweets)
             seen == \E x \in PostRows(R, pid, "Twitter") :
                         icontains(x.content, Prefix(text, twitter_prefix_len))
             R1 == IF text = <<>> \/ seen THEN R
                   ELSE R \cup {NewPost(pid, "Twitter", NoPostId, text)}
         IN save_tweets(R1, pid, Tail(tweets))

scrape_twitter_profile_save(P, A, R, h, fresh) ==
    LET d == Parsed(h)
        goc == get_or_create_profile(P, h, "Twitter", fresh)
        pid == goc.id
        P1 == SetProfile(goc.P, pid, d.avatar)
        rows == AccountRows(A, pid, "Twitter")
    IN IF Cardinality(rows) > 1
       THEN [P |-> P1, A |-> A, R |-> R, raised |-> TRUE]   \* MultipleObjectsReturned
       ELSE LET A0 == IF rows = {}
                      THEN A \cup {NewAccount(FreshId(UsedAccountIds(A)), pid, "Twitter",
                                      [bio |-> "", followers |-> 0, following |-> 0,
                                       posts_collected |-> 0, is_private |-> FALSE])}
                      ELSE A
                R1 == save_tweets(R, pid, Prefix(d.posts, tweets_limit))
                total == Cardinality(PostRows(R1, pid, "Twitter"))
                A1 == {IF a \in AccountRows(A0, pid, "Twitter")
                       THEN [a EXCEPT !.bio = d.bio, !.followers = d.followers,
                                      !.following = d.following, !.posts_collected = total]
                       ELSE a : a \in A0}
            IN [P |-> SetPostsCount(P1, pid, total), A |-> A1, R |-> R1, raised |-> FALSE]

RECURSIVE save_tiktok_posts(_, _, _, _, _)
\* tiktok_scraper: update_or_create keyed by post_id = f"{username}-{hash(content)}"
save_tiktok_posts(R, pid, h, ps, seed) ==
    IF ps = <<>> THEN R
    ELSE LET content == Head(ps)
             post_id == <<h, hash(content, seed)>>
             rows == {x \in PostRows(R, pid, "TikTok") : x.post_id = post_id}
             R1 == IF rows = {}
                   THEN R \cup {NewPost(pid, "TikTok", post_id, content)}
                   ELSE {IF x \in rows THEN [x EXCEPT !.content = content] ELSE x : x \in R}
         IN save_tiktok_posts(R1, pid, h, Tail(ps), seed)

scrape_tiktok_profile_save(P, A, R, h, fresh, seed) ==
    LET d == Parsed(h)
        goc == get_or_create_profile(P, h, "TikTok", fresh)
        pid == goc.id
        P1 == SetProfile(goc.P, pid, d.avatar)
        rows == AccountRows(A, pid, "TikTok")
    IN IF Cardinality(rows) > 1
       THEN [P |-> P1, A |-> A, R |-> R, raised |-> TRUE]   \* MultipleObjectsReturned
       ELSE LET A1 == update_or_create_account(A, pid, "TikTok",
                          [bio |-> d.bio, followers |-> d.followers,
                           following |-> d.following, posts_collected |-> Len(d.posts),
                           is_private |-> IF rows = {} THEN FALSE
                                          ELSE (CHOOSE a \in rows : TRUE).is_private])
            IN [P |-> P1, A |-> A1,
                R |-> save_tiktok_posts(R, pid, h, d.posts, seed), raised |-> FALSE]

-----------------------------------------------------------------------------
(* Evaluations of the analysis computations.  The fetch pipeline holds     *)
(* none; the specifications of the computations draw an input and apply    *)
(* the computation to it.                                                  *)

NoCalc == [op |-> "none"]

\* Python's None.
None == "None"

-----------------------------------------------------------------------------
(* Scrape-task messages *)

IdleJob ==
    [platform |-> "none", username |-> "none", state |-> "none", pc |-> "idle",
     retries |-> 0, countdown |-> 0, signal |-> "none",
     lastErr |-> "none", prof |-> NoId, acct |-> NoId, result |-> "none",
     raced |-> FALSE, txn |-> "none", errDict |-> "none"]

\* How self.retry ends once the retries are used up: Celery raises
\* MaxRetriesExceededError, or re-raises the exception passed as exc.
ExhaustModes == {"MaxRetriesExceededError", "reraise"}

\* Task.retry giving up one retry late.
retries_exhausted_late(retries, p) == retries > max_retries(p)

\* Celery's test in Task.retry, with the task's max_retries option.
retries_exhausted(retries, p) == retries >= max_retries(p)

\* A linear schedule: 60 * (self.request.retries + 1)
linear_countdown(retries) == backoff_base * (retries + 1)

\* 60 * (2 ** self.request.retries)
exponential_countdown(retries) == backoff_base * 2^retries

\* self.retry(exc=e, countdown=c) and the handler around it.  `onMax` is what
\* the task returns from its except MaxRetriesExceededError clause.
retry(job, sig, c, mode, onMax) ==
    IF retries_exhausted(job.retries, job.platform)
    THEN [job EXCEPT !.state = "failed", !.pc = "idle", !.signal = sig, !.countdown = 0,
                     !.prof = NoId, !.acct = NoId, !.txn = "none", !.raced = FALSE,
                     !.errDict = "none",
                     !.result = IF mode = "MaxRetriesExceededError" THEN onMax ELSE "raised"]
    ELSE [job EXCEPT !.state = "retrying", !.pc = "idle", !.signal = sig,
                     !.retries = @ + 1, !.countdown = c,
                     !.prof = NoId, !.acct = NoId, !.txn = "none", !.raced = FALSE,
                     !.errDict = "none"]

\* except Exception as e: of scrape_twitter_task and scrape_tiktok_task
except_backoff(job, mode) ==
    retry(job, "exception", exponential_countdown(job.retries), mode, "fail_reason")

Init ==
    /\ key \in [handle : Handles, platform : Platforms]
    /\ profiles = {}
    /\ accounts = {}
    /\ posts = {}
    /\ analyses = {}
    /\ analysisQ = {}
    /\ jobs = [j \in JobIds |-> IdleJob]
    /\ calc = NoCalc

FreeJob == CHOOSE j \in JobIds : jobs[j].state = "none" /\ \A k \in 1..(j - 1) : jobs[k].state # "none"

HasFreeJob == \E j \in JobIds : jobs[j].state = "none"

QueuedJob(h, p) == [IdleJob EXCEPT !.platform = p, !.username = h, !.state = "queued"]

\* send_tiktok_task / a producer sending the registered task: the message is
\* queued, nothing else is looked at.
send_task(h, p) ==
    /\ p \in TaskPlatforms
    /\ HasFreeJob
    /\ jobs' = [jobs EXCEPT ![FreeJob] = QueuedJob(h, p)]
    /\ UNCHANGED <<key, profiles, accounts, posts, analyses, analysisQ>>

\* search_profile, Instagram and TikTok branches: get_or_create the profile,
\* then apply_async.
search_profile_async(h, p) ==
    /\ p \in {"Instagram", "TikTok"}
    /\ HasFreeJob
    /\ profiles' = get_or_create_profile(profiles, h, p, FreshId(UsedProfileIds)).P
    /\ jobs' = [jobs EXCEPT ![FreeJob] = QueuedJob(h, p)]
    /\ UNCHANGED <<key, accounts, posts, analyses, analysisQ>>

-----------------------------------------------------------------------------
(* The body both scrape_twitter_task and scrape_tiktok_task run after the  *)
(* scraper returned: Profile.get_or_create, profile.save(),                *)
(* SocialMediaAccount.update_or_create, ensure_behavioral_record, delay.   *)

\* From the INSERT of Profile.get_or_create to the SELECT of
\* SocialMediaAccount.update_or_create.  job.prof is what the SELECT of
\* get_or_create found (NoId: no row).
task_profile_step(job, P, A, fresh) ==
    LET h == job.username
        p == job.platform
        ins == job.prof = NoId
        free == unique_together_free(P, h, p)
        P1 == IF ins /\ free THEN P \cup {NewProfile(fresh, h, p)} ELSE P
        \* IntegrityError inside get_or_create: it returns the row that won
        pid == IF ~ins THEN job.prof
               ELSE IF free THEN fresh
               ELSE (CHOOSE r \in ProfileRows(P, h, p) : TRUE).id
        \* profile.save(): UPDATE by primary key, INSERT when no row has it
        exists == \E r \in P1 : r.id = pid
        canInsert == unique_together_free(P1, h, p)
        P2 == IF exists THEN SetProfile(P1, pid, "None")
              ELSE IF canInsert THEN P1 \cup {NewProfile(pid, h, p)}
              ELSE P1
        rows == AccountRows(A, pid, p)
    IN [P |-> P2,
        raised |-> (~exists /\ ~canInsert) \/ Cardinality(rows) > 1,
        pid |-> pid,
        acct |-> IF rows = {} THEN NoId ELSE (CHOOSE a \in rows : TRUE).id,
        raced |-> ins /\ ~free]

\* defaults= of the task's SocialMediaAccount.update_or_create
task_account_defaults(h, p) ==
    IF p = "Twitter"
    THEN [bio |-> "", followers |-> 0, following |-> 0,
          posts_collected |-> 0, is_private |-> FALSE]
    ELSE [bio |-> Parsed(h).bio, followers |-> Parsed(h).followers,
          following |-> Parsed(h).following,
          posts_collected |-> 0, is_private |-> FALSE]

\* The INSERT or UPDATE of update_or_create; job.acct is the row its SELECT
\* found.  Both need the profile row (foreign key).
task_account_write(job, A) ==
    LET d == task_account_defaults(job.username, job.platform)
        id == IF job.acct = NoId THEN FreshId(UsedAccountIds(A)) ELSE job.acct
    IN {a \in A : a.id # id} \cup {NewAccount(id, job.prof, job.platform, d)}

scrape_task_profile(j) ==
    LET job == jobs[j] IN
    /\ job.platform \in {"Twitter", "TikTok"}
    /\ job.state = "running"
    /\ job.pc = "profile"
    /\ \E mode \in ExhaustModes :
         LET st == task_profile_step(job, profiles, accounts, FreshId(UsedProfileIds)) IN
         /\ profiles' = st.P
         /\ jobs' = [jobs EXCEPT ![j] =
                IF st.raised THEN except_backoff([job EXCEPT !.lastErr = "Database"], mode)
                ELSE [job EXCEPT !.pc = "account", !.prof = st.pid, !.acct = st.acct,
                                 !.raced = @ \/ st.raced, !.errDict = "none"]]
    /\ UNCHANGED <<key, accounts, posts, analyses, analysisQ>>

scrape_task_account(j) ==
    LET job == jobs[j] IN
    /\ job.platform \in {"Twitter", "TikTok"}
    /\ job.state = "running"
    /\ job.pc = "account"
    /\ \E mode \in ExhaustModes :
         IF job.prof \in ProfileIds
         THEN /\ accounts' = task_account_write(job, accounts)
              /\ analyses' = analyses \cup {job.prof}
              /\ analysisQ' = analysisQ \cup {job.prof}
              /\ jobs' = [jobs EXCEPT ![j] =
                     [job EXCEPT !.state = "succeeded", !.pc = "idle", !.result = "ok",
                                 !.countdown = 0, !.retries = 0, !.raced = FALSE,
                                 !.prof = NoId, !.acct = NoId]]
         ELSE \* the profile row is gone: IntegrityError on the foreign key
              /\ jobs' = [jobs EXCEPT ![j] =
                     except_backoff([job EXCEPT !.lastErr = "Database"], mode)]
              /\ UNCHANGED <<accounts, analyses, analysisQ>>
    /\ UNCHANGED <<key, profiles, posts>>

\* A worker takes the message: scrape_twitter_profile, then the SELECT of the
\* task's Profile.get_or_create.  An error dict has no "profile" key, so the
\* task's test `"error" in profile_data` never sees it: the task goes on with
\* the dict as its result (job.errDict, until the save has begun).
scrape_twitter_task(j) ==
    LET job == jobs[j]
        h == job.username
    IN
    /\ job.platform = "Twitter"
    /\ job.state \in {"queued", "retrying"}
    /\ \E out \in {"ok", "Unavailable", "NotFound", "Transient"}, mode \in ExhaustModes :
         LET blk == IF out = "ok"
                    THEN scrape_twitter_profile_save(profiles, accounts, posts, h,
                                                     FreshId(UsedProfileIds))
                    ELSE [P |-> profiles, A |-> accounts, R |-> posts,
                          raised |-> out = "Transient"]
             \* the task sees no error unless the scraper raised
             run == [job EXCEPT !.state = "running", !.signal = "none", !.countdown = 0,
                                !.lastErr = IF ~blk.raised THEN "none"
                                             ELSE IF out = "ok" THEN "Database" ELSE out]
             found == ProfileRows(blk.P, h, "Twitter")
         IN /\ profiles' = blk.P
            /\ accounts' = blk.A
            /\ posts' = blk.R
            /\ jobs' = [jobs EXCEPT ![j] =
                   IF blk.raised THEN except_backoff(run, mode)
                   ELSE [run EXCEPT !.pc = "profile",
                                    !.errDict = IF out = "ok" THEN "none" ELSE out,
                                    !.prof = IF found = {} THEN NoId
                                             ELSE (CHOOSE r \in found : TRUE).id]]
    /\ UNCHANGED <<key, analyses, analysisQ>>

\* A worker whose interpreter has hash seed `seed` takes the message:
\* scrape_tiktok_profile; a result without success raises Exception(reason).
scrape_tiktok_task(j) ==
    LET job == jobs[j]
        h == job.username
    IN
    /\ job.platform = "TikTok"
    /\ job.state \in {"queued", "retrying"}
    /\ \E out \in {"ok", "Unavailable", "NotFound"}, seed \in WorkerSeeds,
          mode \in ExhaustModes :
         LET blk == IF out = "ok"
                    THEN scrape_tiktok_profile_save(profiles, accounts, posts, h,
                                                    FreshId(UsedProfileIds), seed)
                    ELSE [P |-> profiles, A |-> accounts, R |-> posts, raised |-> TRUE]
             run == [job EXCEPT !.state = "running", !.signal = "none", !.countdown = 0,
                                !.lastErr = IF ~blk.raised THEN "none"
                                             ELSE IF out = "ok" THEN "Database" ELSE out]
             found == ProfileRows(blk.P, h, "TikTok")
         IN /\ profiles' = blk.P
            /\ accounts' = blk.A
            /\ posts' = blk.R
            /\ jobs' = [jobs EXCEPT ![j] =
                   IF blk.raised THEN except_backoff(run, mode)
                   ELSE [run EXCEPT !.pc = "profile",
                                    !.prof = IF found = {} THEN NoId
                                             ELSE (CHOOSE r \in found : TRUE).id]]
    /\ UNCHANGED <<key, analyses, analysisQ>>

-----------------------------------------------------------------------------
(* scrape_instagram_task *)

\* What instagram_scraper.scrape_instagram_profile returns under "posts".
instagram_posts_value == "list"

\* A field that stores whatever it is given.
any_field_accepts(v) == TRUE

\* SocialMediaAccount.posts_collected is an IntegerField: saving a value that
\* is no number raises before any row is written.
integer_field_accepts(v) == v = "int"

\* The substrings the except clause looks for in str(e).
MessageClasses == {"rate_limit_block", "temporary", "other"}

\* The except clause without its rate-limit branch: the rate-limit block is
\* handled like a temporary error.
except_instagram_no_block(job, m, w, mode) ==
    CASE m \in {"rate_limit_block", "temporary"} -> retry(job, m, w, mode, "error_only")
      [] OTHER -> [job EXCEPT !.state = "failed", !.pc = "idle", !.signal = m,
                              !.countdown = 0, !.retries = 0, !.result = "fail_reason",
                              !.prof = NoId, !.txn = "none"]

\* except Exception as e: of scrape_instagram_task, for a message of class m
\* (rate_limit_block: "Please wait a few minutes" or "401 Unauthorized";
\* temporary: "429" or "temporarily unavailable") and a sampled
\* random.randint value w.
except_instagram(job, m, w, mode) ==
    CASE m = "rate_limit_block" -> retry(job, m, rate_limit_wait_time, mode, "error_only")
      [] m = "temporary" -> retry(job, m, w, mode, "error_only")
      [] OTHER -> [job EXCEPT !.state = "failed", !.pc = "idle", !.signal = m,
                              !.countdown = 0, !.retries = 0, !.result = "fail_reason",
                              !.prof = NoId, !.txn = "none"]

\* A worker takes the message: the scraper (no store access), then the body
\* of the transaction.atomic() block the result selects.  The block's writes
\* stay in the open transaction (job.txn); a delay() call inside the block
\* reaches the broker at once.
scrape_instagram_task(j) ==
    LET job == jobs[j]
        h == job.username
        found == ProfileRows(profiles, h, "Instagram")
        pid == IF found = {} THEN FreshId(UsedProfileIds) ELSE (CHOOSE r \in found : TRUE).id
    IN
    /\ job.platform = "Instagram"
    /\ job.state \in {"queued", "retrying"}
    /\ \E out \in {"ok", "NotFound", "Private", "Transient"} :
         LET run == [job EXCEPT !.state = "running", !.signal = "none", !.countdown = 0,
                                !.lastErr = IF out = "ok" THEN "none" ELSE out]
         IN IF out # "ok"
            THEN \* data is None: the placeholder block
                 /\ jobs' = [jobs EXCEPT ![j] =
                        [run EXCEPT !.pc = "commit", !.txn = "placeholder", !.prof = pid]]
                 /\ UNCHANGED analysisQ
            ELSE IF integer_field_accepts(instagram_posts_value)
            THEN /\ jobs' = [jobs EXCEPT ![j] =
                        [run EXCEPT !.pc = "commit", !.txn = "full", !.prof = pid]]
                 /\ analysisQ' = analysisQ \cup {pid}
            ELSE \* the save raises, the block rolls back, the except clause runs
                 /\ \E m \in MessageClasses, w \in TemporaryWaits, mode \in ExhaustModes :
                      jobs' = [jobs EXCEPT ![j] =
                          except_instagram([run EXCEPT !.lastErr = "Database"], m, w, mode)]
                 /\ UNCHANGED analysisQ
    /\ UNCHANGED <<key, profiles, accounts, posts, analyses>>

instagram_defaults(h, txn) ==
    IF txn = "placeholder"
    THEN [bio |-> "", followers |-> 0, following |-> 0,
          posts_collected |-> 0, is_private |-> TRUE]
    ELSE [bio |-> Parsed(h).bio, followers |-> Parsed(h).followers,
          following |-> Parsed(h).following,
          posts_collected |-> Len(Parsed(h).posts), is_private |-> FALSE]

\* The open transaction commits and the task returns.
scrape_instagram_task_commit(j) ==
    LET job == jobs[j]
        h == job.username
        goc == get_or_create_profile(profiles, h, "Instagram", job.prof)
        rows == AccountRows(accounts, goc.id, "Instagram")
    IN
    /\ job.platform = "Instagram"
    /\ job.state = "running"
    /\ job.pc = "commit"
    /\ IF Cardinality(rows) > 1
       THEN \* MultipleObjectsReturned: rolled back, a permanent error
            /\ jobs' = [jobs EXCEPT ![j] =
                   except_instagram([job EXCEPT !.lastErr = "Database"], "other", 0, "reraise")]
            /\ UNCHANGED <<profiles, accounts, analyses>>
       ELSE /\ profiles' = SetProfile(goc.P, goc.id,
                               IF job.txn = "placeholder" THEN "None" ELSE Parsed(h).avatar)
            /\ accounts' = update_or_create_account(accounts, goc.id, "Instagram",
                                                    instagram_defaults(h, job.txn))
            /\ analyses' = IF job.txn = "full" THEN analyses \cup {goc.id} ELSE analyses
            /\ jobs' = [jobs EXCEPT ![j] =
                   [job EXCEPT !.state = IF job.txn = "full" THEN "succeeded" ELSE "failed",
                               !.result = IF job.txn = "full" THEN "ok" ELSE "fail_reason",
                               !.pc = "idle", !.txn = "none", !.prof = NoId,
                               !.countdown = 0, !.retries = 0]]
    /\ UNCHANGED <<key, posts, analysisQ>>

-----------------------------------------------------------------------------
(* The synchronous branches of search_profile *)

\* Twitter branch.  get_twitter_profile finds the user, an unverified one,
\* or returns None (found = FALSE): the view then redirects and writes
\* nothing.  "following" is not among the defaults.
search_profile_twitter(h, p, found) ==
    LET goc == get_or_create_profile(profiles, h, "Twitter", FreshId(UsedProfileIds))
        rows == AccountRows(accounts, goc.id, "Twitter")
        old == CHOOSE a \in rows : TRUE
    IN
    /\ p = "Twitter"
    /\ IF ~found
       THEN UNCHANGED <<profiles, accounts, analyses, analysisQ>>
       ELSE /\ profiles' = SetProfile(goc.P, goc.id, Parsed(h).avatar)
            /\ IF Cardinality(rows) > 1
               THEN UNCHANGED <<accounts, analyses, analysisQ>>   \* MultipleObjectsReturned
               ELSE /\ accounts' = update_or_create_account(accounts, goc.id, "Twitter",
                            [bio |-> Parsed(h).bio, followers |-> Parsed(h).followers,
                             following |-> IF rows = {} THEN 0 ELSE old.following,
                             posts_collected |-> 0, is_private |-> TRUE])
                    /\ analyses' = analyses \cup {goc.id}
                    /\ analysisQ' = analysisQ \cup {goc.id}
    /\ UNCHANGED <<key, posts, jobs>>

\* GitHub branch: scrape_github_profile always returns a dict.
search_profile_github(h, p) ==
    LET goc == get_or_create_profile(profiles, h, "GitHub", FreshId(UsedProfileIds))
        rows == AccountRows(accounts, goc.id, "GitHub")
        old == CHOOSE a \in rows : TRUE
    IN
    /\ p = "GitHub"
    /\ profiles' = SetProfile(goc.P, goc.id, "github.png")
    /\ IF Cardinality(rows) > 1
       THEN UNCHANGED <<accounts, analyses, analysisQ>>   \* MultipleObjectsReturned
       ELSE /\ accounts' = update_or_create_account(accounts, goc.id, "GitHub",
                    [bio |-> Parsed(h).bio, followers |-> Parsed(h).followers,
                     following |-> Parsed(h).following, posts_collected |-> 0,
                     is_private |-> IF rows = {} THEN FALSE ELSE old.is_private])
            /\ analyses' = analyses \cup {goc.id}
            /\ analysisQ' = analysisQ \cup {goc.id}
    /\ UNCHANGED <<key, posts, jobs>>

-----------------------------------------------------------------------------
(* The unscrape helpers behind the delete views *)

\* profile.delete(): the rows that reference the profile go with it.
delete_profile(pid) ==
    /\ profiles' = {r \in profiles : r.id # pid}
    /\ accounts' = {a \in accounts : a.profile # pid}
    /\ posts' = {x \in posts : x.profile # pid}
    /\ analyses' = analyses \ {pid}

\* the .delete() left out: every account row stays
delete_accounts_skipped(A, pid, p) == A

\* SocialMediaAccount.objects.filter(profile=profile, platform=p).delete()
delete_accounts(A, pid, p) == A \ AccountRows(A, pid, p)

\* What an unscrape function returns on table P: True for a stored profile,
\* False on Profile.DoesNotExist.
unscrape_returns(P, h, p) == ProfileRows(P, h, p) # {}

\* The unscrape function of platform p, returning ret.
unscrape(h, p, ret) ==
    LET rows == ProfileRows(profiles, h, p)
        pid == (CHOOSE r \in rows : TRUE).id
    IN
    /\ Cardinality(rows) <= 1
    /\ ret = unscrape_returns(profiles, h, p)
    /\ IF rows = {}
       THEN UNCHANGED <<profiles, accounts, posts, analyses>>   \* DoesNotExist
       ELSE CASE p \in {"Instagram", "TikTok"} -> delete_profile(pid)
              [] p = "Twitter" ->
                    /\ accounts' = delete_accounts(accounts, pid, p)
                    /\ posts' = posts \ PostRows(posts, pid, p)
                    /\ UNCHANGED <<profiles, analyses>>
              [] OTHER ->
                    /\ accounts' = delete_accounts(accounts, pid, p)
                    /\ UNCHANGED <<profiles, posts, analyses>>
    /\ UNCHANGED <<key, analysisQ, jobs>>

-----------------------------------------------------------------------------
(* perform_behavioral_analysis: the message is consumed; the analysis row  *)
(* is made when the profile is still there.                                *)

perform_behavioral_analysis(pid) ==
    /\ pid \in analysisQ
    /\ analysisQ' = analysisQ \ {pid}
    /\ analyses' = IF pid \in ProfileIds THEN analyses \cup {pid} ELSE analyses
    /\ UNCHANGED <<key, profiles, accounts, posts, jobs>>

-----------------------------------------------------------------------------

WorkerStep(j) ==
    \/ scrape_twitter_task(j) /\ UNCHANGED calc
    \/ scrape_tiktok_task(j) /\ UNCHANGED calc
    \/ scrape_task_profile(j) /\ UNCHANGED calc
    \/ scrape_task_account(j) /\ UNCHANGED calc
    \/ scrape_instagram_task(j) /\ UNCHANGED calc
    \/ scrape_instagram_task_commit(j) /\ UNCHANGED calc

Next ==
    \/ send_task(key.handle, key.platform) /\ UNCHANGED calc
    \/ search_profile_async(key.handle, key.platform) /\ UNCHANGED calc
    \/ \E found \in BOOLEAN :
          search_profile_twitter(key.handle, key.platform, found) /\ UNCHANGED calc
    \/ search_profile_github(key.handle, key.platform) /\ UNCHANGED calc
    \/ \E ret \in BOOLEAN : unscrape(key.handle, key.platform, ret) /\ UNCHANGED calc
    \/ \E pid \in analysisQ : perform_behavioral_analysis(pid) /\ UNCHANGED calc
    \/ \E j \in JobIds : WorkerStep(j)

Spec == Init /\ [][Next]_vars

\* A worker of the task's queue is running: while some message can be taken
\* or some task body can go on, the workers do not stand still forever.
FairSpec == Spec /\ WF_vars(\E j \in JobIds : WorkerStep(j))

-----------------------------------------------------------------------------
(* Vocabulary of the properties *)

\* A fetch job that is queued, executing, or waiting for its retry.
InFlight(j) == jobs[j].state \in {"queued", "running", "retrying"}

Terminal(j) == jobs[j].state \in {"succeeded", "failed"}

\* Fetch errors no retry can cure.
NonRetryable == {"NotFound", "Private"}

\* What self.retry was called for.
RetrySignals == {"exception", "rate_limit_block", "temporary"}

\* The job ended in self.retry, its retries used up.
Exhausted(j) == jobs[j].state = "failed" /\ jobs[j].signal \in RetrySignals

\* A Profile row of the pair with a snapshot that has an empty bio, zero
\* counters and the private flag.
PlaceholderStored(P, A, h, p) ==
    \E r \in ProfileRows(P, h, p) : \E a \in AccountRows(A, r.id, p) :
        /\ a.bio = ""
        /\ a.followers = 0
        /\ a.following = 0
        /\ a.posts_collected = 0
        /\ a.is_private

-----------------------------------------------------------------------------
(* Properties *)

\* C1: at most one fetch job per (handle, platform) is in flight at any time;
\* a second submission while one is queued or running creates no second job.
C1_OneInFlight ==
    \A i, j \in JobIds :
        (InFlight(i) /\ InFlight(j) /\ jobs[i].username = jobs[j].username
            /\ jobs[i].platform = jobs[j].platform) => i = j

\* C2: in every reachable state there is at most one Profile row per
\* (handle, platform), whatever searches, fetch tasks and purges interleave.
C2_UniqueProfile ==
    \A r1, r2 \in profiles :
        (r1.username = r2.username /\ r1.platform = r2.platform) => r1 = r2

\* A task's INSERT met the row another request had inserted since the task's
\* SELECT, and the table holds the one row.
C2_Witness ==
    /\ \E j \in JobIds : jobs[j].raced /\ jobs[j].pc = "account"
    /\ Cardinality(ProfileRows(profiles, key.handle, key.platform)) = 1

\* C3: ingesting the same fetch result again, on whichever worker process,
\* creates no duplicate Post row: no two stored posts of a profile and
\* platform carry the same content.
C3_NoDuplicatePost ==
    \A x, y \in posts :
        (x.profile = y.profile /\ x.platform = y.platform /\ x.content = y.content)
            => x = y

\* C4: a task whose fetch ended with a non-retryable error is never
\* re-scheduled.
C4_NoRetryOfPermanent ==
    \A j \in JobIds : jobs[j].lastErr \in NonRetryable => jobs[j].state # "retrying"

\* C5 as the specification states it: the k-th retry delay of the exponential
\* schedule is baseDelay * 2^k, capped at the ceiling (900 s).
C5_DelaysAsSpecified ==
    \A j \in JobIds :
        (jobs[j].state = "retrying" /\ jobs[j].signal = "exception")
            => jobs[j].countdown = Min(backoff_base * 2^jobs[j].retries, 900)

\* C5, amended: the k-th retry delay of scrape_twitter_task and
\* scrape_tiktok_task is 60 * 2^(k-1) seconds (60, 120, 240), without a cap,
\* and each delay is larger than the one before.
C5_Delays ==
    /\ [](\A j \in JobIds :
            (jobs[j].state = "retrying" /\ jobs[j].signal = "exception")
                => /\ jobs[j].platform \in {"Twitter", "TikTok"}
                   /\ jobs[j].countdown = backoff_base * 2^(jobs[j].retries - 1))
    /\ [][\A j \in JobIds :
            (jobs[j].state = "retrying" /\ jobs[j].signal = "exception"
                /\ jobs'[j].state = "retrying" /\ jobs'[j].signal = "exception"
                /\ jobs'[j].retries > jobs[j].retries)
                => jobs'[j].countdown > jobs[j].countdown]_vars

\* The third retry of a task has been scheduled, 240 s ahead.
C5_Witness ==
    \E j \in JobIds :
        /\ jobs[j].state = "retrying"
        /\ jobs[j].signal = "exception"
        /\ jobs[j].retries = 3
        /\ jobs[j].countdown = 240

\* C6: every fetch job reaches a terminal state; it is retried at most
\* max_retries times (3 for Twitter and TikTok, 5 for Instagram), and a failed
\* job stays failed.
C6_Terminates ==
    /\ [](\A j \in JobIds : jobs[j].retries <= max_retries(jobs[j].platform))
    /\ [][\A j \in JobIds : jobs[j].state = "failed" => jobs'[j].state = "failed"]_vars
    /\ \A j \in JobIds : InFlight(j) ~> Terminal(j)

\* An Instagram job failed after its fifth retry.
C6_Witness ==
    \E j \in JobIds :
        /\ Exhausted(j)
        /\ jobs[j].platform = "Instagram"
        /\ jobs[j].retries = max_retries_instagram

\* C7: a task that used up its retries returns a value with success = False
\* and the reason of the last error; it does not end in an uncaught exception.
C7_ExhaustionReturnsReason ==
    \A j \in JobIds : Exhausted(j) => jobs[j].result = "fail_reason"

C9_PlaceholderOnPermanent ==
    [][\A j \in JobIds :
         (jobs[j].state # "failed" /\ jobs'[j].state = "failed"
             /\ jobs'[j].lastErr \in NonRetryable)
             => PlaceholderStored(profiles', accounts', jobs'[j].username,
                                  jobs'[j].platform)]_vars

C11_UnavailableIsRetried ==
    [][\A j \in JobIds :
         LET handled == /\ jobs'[j].state \in {"retrying", "failed"}
                        /\ profiles' = profiles
                        /\ accounts' = accounts
                        /\ analysisQ' = analysisQ
         IN /\ (jobs[j].errDict = "Unavailable" /\ jobs'[j] # jobs[j]) => handled
            /\ (jobs[j].state \in {"queued", "retrying"} /\ jobs'[j] # jobs[j]
                   /\ jobs'[j].lastErr = "Unavailable") => handled]_vars


-----------------------------------------------------------------------------
(* perform_behavioral_analysis, the computation.  A text is a sequence of  *)
(* characters over letters, "#" and " "; TextBlob's polarity of a text is  *)
(* part of the text's description.  Scores are integers, in thousandths.   *)

MaxAnalysedPosts == 2

keyword_min_len == 4
top_keywords_limit == 10
positive_threshold == 50
negative_threshold == 0 - 50

Chars(w) ==
    CASE w = "Golang dev" -> <<"G", "o", "l", "a", "n", "g", " ", "d", "e", "v">>
      [] w = "#Go coder" -> <<"#", "G", "o", " ", "c", "o", "d", "e", "r">>
      [] w = "good code" -> <<"g", "o", "o", "d", " ", "c", "o", "d", "e">>
      [] w = "#bad day" -> <<"#", "b", "a", "d", " ", "d", "a", "y">>
      [] w = "acme" -> <<"a", "c", "m", "e">>
      [] w = "blog" -> <<"b", "l", "o", "g">>
      [] OTHER -> <<>>

Text(w, polarity) == [chars |-> Chars(w), polarity |-> polarity]

EmptyText == Text("", 0)

IsLetter(ch) == ch \notin {"#", " "}

\* round(n / d), ties to the even neighbour (d > 0)
round_half_even(n, d) ==
    LET q == n \div d
        r == n % d
    IN IF 2 * r < d THEN q
       ELSE IF 2 * r > d THEN q + 1
       ELSE IF q % 2 = 0 THEN q ELSE q + 1

\* round(x, 2) of a score x
round2(x) == 10 * round_half_even(x, 10)

\* round(TextBlob(text).sentiment.polarity, 2)
polarity2(t) == round2(t.polarity)

RECURSIVE LetterRuns(_, _)
\* the maximal runs of letters of s from index i on
LetterRuns(s, i) ==
    IF i > Len(s) THEN <<>>
    ELSE IF ~IsLetter(s[i]) THEN LetterRuns(s, i + 1)
    ELSE LET end == CHOOSE e \in i..Len(s) :
                        /\ \A k \in i..e : IsLetter(s[k])
                        /\ e = Len(s) \/ ~IsLetter(s[e + 1])
         IN <<[from |-> i, to |-> end]>> \o LetterRuns(s, end + 1)

\* re.findall(r"#(\w+)", text)
findall_hashtags(s) ==
    LET runs == LetterRuns(s, 1)
        tagged == SelectSeq(runs, LAMBDA r : r.from > 1 /\ s[r.from - 1] = "#")
    IN [i \in 1..Len(tagged) |-> SubSeq(s, tagged[i].from, tagged[i].to)]

\* re.findall(r"\b[a-zA-Z]{4,}\b", text.lower())
findall_words(s) ==
    LET low == LowerSeq(s)
        runs == LetterRuns(low, 1)
        long == SelectSeq(runs, LAMBDA r : r.to - r.from + 1 >= keyword_min_len)
    IN [i \in 1..Len(long) |-> SubSeq(low, long[i].from, long[i].to)]

Occurrences(seq, k) == Cardinality({i \in 1..Len(seq) : seq[i] = k})

\* pd.Series(keywords).value_counts().head(10).to_dict(), {} for no keyword
value_counts_head(seq) ==
    LET all == {seq[i] : i \in 1..Len(seq)}
        kept == IF Cardinality(all) <= top_keywords_limit THEN all
                ELSE CHOOSE K \in SUBSET all :
                        /\ Cardinality(K) = top_keywords_limit
                        /\ \A a \in K, b \in all \ K :
                              Occurrences(seq, a) >= Occurrences(seq, b)
    IN [k \in kept |-> Occurrences(seq, k)]

extract_keywords(s) == value_counts_head(findall_hashtags(s) \o findall_words(s))

RECURSIVE join(_)
\* " ".join(texts)
join(texts) ==
    IF Len(texts) = 0 THEN <<>>
    ELSE IF Len(texts) = 1 THEN texts[1]
    ELSE texts[1] \o <<" ">> \o join(Tail(texts))

\* The counts of positive, neutral and negative captions and the overall
\* score round((positive - negative) / max(1, total), 2).
compute_sentiment_distribution(captions) ==
    LET positive == Cardinality({i \in 1..Len(captions) :
                                    polarity2(captions[i]) > positive_threshold})
        negative == Cardinality({i \in 1..Len(captions) :
                                    polarity2(captions[i]) < negative_threshold})
        total == Len(captions)
    IN [positive |-> positive, neutral |-> total - positive - negative,
        negative |-> negative,
        overall_score |->
            10 * round_half_even(100 * (positive - negative),
                                 IF total > 1 THEN total ELSE 1)]

\* posts_df["hour"].mode()[0] as "<hour>:00"; None for no post
compute_posting_patterns(stored) ==
    IF Len(stored) = 0 THEN None
    ELSE LET hours == [i \in 1..Len(stored) |-> stored[i].hour]
             top == CHOOSE h \in {hours[i] : i \in 1..Len(hours)} :
                        \A g \in {hours[i] : i \in 1..Len(hours)} :
                            \/ Occurrences(hours, h) > Occurrences(hours, g)
                            \/ Occurrences(hours, h) = Occurrences(hours, g) /\ h <= g
         IN ToString(top) \o ":00"

\* sm and sm.bio, for sm the rows .first() found: no row or one
has_bio(sm) == sm # <<>> /\ sm[1].bio # EmptyText

\* [sm.bio] if sm and sm.bio else []
bio_texts(sm) == IF has_bio(sm) THEN <<sm[1].bio.chars>> ELSE <<>>

\* The fields analysis.save() writes for a profile of platform p whose
\* account row is sm (<<>> for no row) and whose posts are `stored`;
\* `fetched` are the captions of the secondary caption source.
analysis_fields(p, sm, stored, company, blog, fetched) ==
    LET contents == [i \in 1..Len(stored) |-> stored[i].content]
        network == IF sm # <<>> THEN sm[1].followers + sm[1].following ELSE 0
    IN IF p = "GitHub"
       THEN LET keywords ==
                    (IF has_bio(sm) THEN findall_words(sm[1].bio.chars) ELSE <<>>)
                    \o (IF company # None THEN <<LowerSeq(Chars(company))>> ELSE <<>>)
                    \o (IF blog # None THEN <<Chars("blog")>> ELSE <<>>)
            IN [avg_post_time |-> "N/A",
                sentiment_score |-> IF has_bio(sm) THEN polarity2(sm[1].bio) ELSE 0,
                top_keywords |-> value_counts_head(keywords),
                network_size |-> network]
       ELSE LET captions == IF p = "Instagram" /\ Len(contents) = 0
                            THEN fetched ELSE contents
                dist == compute_sentiment_distribution(captions)
                chars == [i \in 1..Len(captions) |-> captions[i].chars]
                text_data == IF p \in {"Instagram", "TikTok"}
                             THEN join(chars \o bio_texts(sm))
                             ELSE join(chars)
            IN [avg_post_time |-> compute_posting_patterns(stored),
                sentiment_score |-> dist.overall_score,
                top_keywords |-> extract_keywords(text_data),
                network_size |-> network]

-----------------------------------------------------------------------------
(* The analysis applied to one stored profile *)

AnalysedPosts ==
    {[content |-> Text("good code", 700), hour |-> 9],
     [content |-> Text("#bad day", 0 - 700), hour |-> 21],
     [content |-> Text("good code", 54), hour |-> 21]}

\* What .first() finds: no account row, or one.
Accounts ==
    {<<>>} \cup {<<[bio |-> b, followers |-> 7, following |-> 3]>> :
                    b \in {EmptyText, Text("Golang dev", 0), Text("#Go coder", 136)}}

SeqsUpTo(S, n) == UNION {[1..m -> S] : m \in 0..n}

\* company and blog are GitHub fields; the secondary caption source is asked
\* for Instagram only.
AnalysisInputs ==
    {i \in [platform : Platforms, sm : Accounts,
            posts : SeqsUpTo(AnalysedPosts, MaxAnalysedPosts),
            company : {None, "acme"}, blog : {None, "blog"},
            fetched : {<<>>, <<Text("good code", 700)>>}] :
        /\ i.platform # "GitHub" => i.company = None /\ i.blog = None
        /\ i.platform # "Instagram" => i.fetched = <<>>}

AnalysisInit ==
    /\ calc \in {[op |-> "analysis", in |-> i] : i \in AnalysisInputs}
    /\ key = [handle |-> "alice", platform |-> calc.in.platform]
    /\ profiles = {}
    /\ accounts = {}
    /\ posts = {}
    /\ analyses = {}
    /\ analysisQ = {}
    /\ jobs = [j \in JobIds |-> IdleJob]

analyze ==
    /\ calc.op = "analysis"
    /\ calc' = [op |-> "analysed", in |-> calc.in,
                out |-> analysis_fields(calc.in.platform, calc.in.sm, calc.in.posts,
                                        calc.in.company, calc.in.blog, calc.in.fetched)]
    /\ UNCHANGED <<key, profiles, accounts, posts, analyses, analysisQ, jobs>>

AnalysisSpec == AnalysisInit /\ [][analyze]_vars

\* C12: the analysis of a profile with no stored post stores sentiment score
\* 0.0, an empty keyword map and no average post time.
C12_ZeroPostsNeutral ==
    (calc.op = "analysed" /\ Len(calc.in.posts) = 0) =>
        /\ calc.out.sentiment_score = 0
        /\ DOMAIN calc.out.top_keywords = {}
        /\ calc.out.avg_post_time = None

-----------------------------------------------------------------------------
(* The three places that bucket sentiment scores: the analysis task, the   *)
(* distribution helper and the dashboard.  Each is applied to the scores   *)
(* of a profile's posts.                                                   *)

MaxScores == 4

dashboard_threshold == 100

ScoreSamples == {200, 0 - 300, 0, 60, 54, 0 - 80}

\* The captions the task scores again: TextBlob gives each the polarity that
\* was stored with the post.
captions_of(scores) == [i \in 1..Len(scores) |-> Text("", scores[i])]

\* generate_sentiment_distribution(sentiment_values=values): the JSON array
\* [positive, neutral, negative]
generate_sentiment_distribution(values) ==
    LET pos == Cardinality({i \in 1..Len(values) : values[i] > positive_threshold})
        neg == Cardinality({i \in 1..Len(values) : values[i] < negative_threshold})
    IN IF Len(values) = 0 THEN <<0, 0, 0>> ELSE <<pos, Len(values) - pos - neg, neg>>

\* behavioral_dashboard's buckets
dashboard_buckets(values) ==
    LET pos == Cardinality({i \in 1..Len(values) : values[i] > dashboard_threshold})
        neg == Cardinality({i \in 1..Len(values) : values[i] < 0 - dashboard_threshold})
        rest == Len(values) - pos - neg
    IN [positive |-> pos, neutral |-> IF rest > 0 THEN rest ELSE 0, negative |-> neg]

SentimentInit ==
    /\ calc \in {[op |-> "scores", in |-> s] : s \in SeqsUpTo(ScoreSamples, MaxScores)}
    /\ key \in [handle : Handles, platform : {"Twitter"}]
    /\ profiles = {}
    /\ accounts = {}
    /\ posts = {}
    /\ analyses = {}
    /\ analysisQ = {}
    /\ jobs = [j \in JobIds |-> IdleJob]

analysis_distribution ==
    /\ calc.op = "scores"
    /\ calc' = [op |-> "task", in |-> calc.in,
                out |-> compute_sentiment_distribution(captions_of(calc.in))]
    /\ UNCHANGED <<key, profiles, accounts, posts, analyses, analysisQ, jobs>>

helper_distribution ==
    /\ calc.op = "scores"
    /\ calc' = [op |-> "helper", in |-> calc.in,
                out |-> LET d == generate_sentiment_distribution(calc.in)
                        IN [positive |-> d[1], neutral |-> d[2], negative |-> d[3]]]
    /\ UNCHANGED <<key, profiles, accounts, posts, analyses, analysisQ, jobs>>

behavioral_dashboard ==
    /\ calc.op = "scores"
    /\ calc' = [op |-> "dashboard", in |-> calc.in, out |-> dashboard_buckets(calc.in)]
    /\ UNCHANGED <<key, profiles, accounts, posts, analyses, analysisQ, jobs>>

SentimentNext ==
    \/ analysis_distribution
    \/ helper_distribution
    \/ behavioral_dashboard

SentimentSpec == SentimentInit /\ [][SentimentNext]_vars

\* C13: wherever the distribution of a list of stored scores is computed, a
\* score above 0.05 counts as positive, one below -0.05 as negative, the rest
\* as neutral; the aggregate is (positive - negative) / max(1, total) rounded
\* to three decimals.
C13_SameThresholds ==
    calc.op \in {"task", "helper", "dashboard"} =>
        LET n == Len(calc.in)
            pos == Cardinality({i \in 1..n : calc.in[i] > 50})
            neg == Cardinality({i \in 1..n : calc.in[i] < 0 - 50})
        IN /\ calc.out.positive = pos
           /\ calc.out.negative = neg
           /\ calc.out.neutral = n - pos - neg
           /\ calc.op = "task" =>
                 calc.out.overall_score =
                     round_half_even(1000 * (pos - neg), IF n > 1 THEN n ELSE 1)

\* C14: a purge of a stored profile returns true and removes the Profile row,
\* its snapshot, its posts and its analysis; a second purge returns false.
C14_PurgeRemovesAll ==
    [][\A ret \in BOOLEAN :
          (ProfileRows(profiles, key.handle, key.platform) # {}
              /\ unscrape(key.handle, key.platform, ret)) =>
          LET ids == {r.id : r \in ProfileRows(profiles, key.handle, key.platform)}
          IN /\ ret
             /\ ProfileRows(profiles', key.handle, key.platform) = {}
             /\ \A a \in accounts' : a.profile \notin ids
             /\ \A x \in posts' : x.profile \notin ids
             /\ analyses' \cap ids = {}
             /\ ~unscrape_returns(profiles', key.handle, key.platform)]_vars

-----------------------------------------------------------------------------
(* generate_entity_graph.  What spaCy and the regular expressions find in  *)
(* a post is part of the post's description: the list `ents` before it is  *)
(* deduplicated.  The graph is the map from its edges, two-element sets of *)
(* entities, to their weights.                                             *)

MaxGraphPosts == 3

\* str.capitalize(): the first character upper case, the rest lower case
capitalize(s) ==
    CASE s = "TikTok" -> "Tiktok"
      [] s = "GitHub" -> "Github"
      [] s = "all" -> "All"
      [] OTHER -> s

\* str.lower() of a capitalized platform
lower(s) == IF s = "All" THEN "all" ELSE s

\* list(set(ents))
extract_entities_from_text(ents) == {ents[i] : i \in 1..Len(ents)}

\* for i in range(len(entities)): for j in range(i + 1, len(entities)):
\* the weight of the edge goes up by one, from 0 for a new edge.
add_post_edges(G, entities) ==
    LET pairs == {e \in SUBSET entities : Cardinality(e) = 2}
    IN [e \in DOMAIN G \cup pairs |->
            (IF e \in DOMAIN G THEN G[e] ELSE 0) + (IF e \in pairs THEN 1 ELSE 0)]

RECURSIVE entity_edges(_, _)
\* the loop over the posts
entity_edges(G, found) ==
    IF Len(found) = 0 THEN G
    ELSE entity_edges(
             IF Len(found[1]) = 0 THEN G    \* no content: not post.content
             ELSE add_post_edges(G, extract_entities_from_text(found[1])),
             Tail(found))

\* The graph built for (username, platform) from the posts stored under the
\* profile's platform `stored`; None when no post is found.
generate_entity_graph(platform, stored, ents) ==
    LET asked == capitalize(platform)
        found == IF lower(asked) = "all" \/ asked = stored THEN ents ELSE <<>>
    IN IF Len(found) = 0 THEN [graph |-> <<>>, built |-> FALSE]
       ELSE LET G == entity_edges(<<>>, found)
            IN [graph |-> G, built |-> DOMAIN G # {}]

EntityLists ==
    {<<>>, <<"#ai">>, <<"#ai", "OpenAI">>, <<"#ai", "GPT">>,
     <<"OpenAI", "GPT", "OpenAI">>, <<"#ai", "OpenAI", "GPT">>}

GraphInit ==
    /\ key \in [handle : Handles, platform : {"Twitter", "Instagram", "TikTok"}]
    /\ calc \in {[op |-> "posts", platform |-> p, in |-> e] :
                    p \in {key.platform, "all"},
                    e \in SeqsUpTo(EntityLists, MaxGraphPosts)}
    /\ profiles = {}
    /\ accounts = {}
    /\ posts = {}
    /\ analyses = {}
    /\ analysisQ = {}
    /\ jobs = [j \in JobIds |-> IdleJob]

entity_graph ==
    /\ calc.op = "posts"
    /\ calc' = [op |-> "graph", platform |-> calc.platform, in |-> calc.in,
                out |-> generate_entity_graph(calc.platform, key.platform, calc.in)]
    /\ UNCHANGED <<key, profiles, accounts, posts, analyses, analysisQ, jobs>>

GraphSpec == GraphInit /\ [][entity_graph]_vars

\* C16: the entity graph of a profile's posts has the edge {a, b}, a # b,
\* exactly when some post's entity set holds both, weighted by the number of
\* such posts.
C16_CooccurrenceEdges ==
    calc.op = "graph" =>
        LET sets == [i \in 1..Len(calc.in) |-> {calc.in[i][k] : k \in 1..Len(calc.in[i])}]
            all == UNION {sets[i] : i \in 1..Len(sets)}
            both(a, b) == {i \in 1..Len(sets) : a \in sets[i] /\ b \in sets[i]}
        IN /\ \A e \in DOMAIN calc.out.graph : Cardinality(e) = 2
           /\ \A a \in all : \A b \in all \ {a} :
                 /\ {a, b} \in DOMAIN calc.out.graph <=> both(a, b) # {}
                 /\ {a, b} \in DOMAIN calc.out.graph =>
                       calc.out.graph[{a, b}] = Cardinality(both(a, b))

-----------------------------------------------------------------------------
(* The numeric normalisers of the fetchers.  A counter text is a sequence  *)
(* of characters; Python's int and float are applied to it as Python does. *)

thousand == 1000
million == 1000000
billion == 1000000000

Digits == <<"0", "1", "2", "3", "4", "5", "6", "7", "8", "9">>

IsDigit(ch) == \E d \in 1..10 : Digits[d] = ch

RECURSIVE DigitsValue(_)
\* the number a sequence of digits writes
DigitsValue(s) ==
    IF Len(s) = 0 THEN 0
    ELSE 10 * DigitsValue(SubSeq(s, 1, Len(s) - 1))
            + (CHOOSE d \in 0..9 : Digits[d + 1] = s[Len(s)])

RECURSIVE Power10(_)
Power10(n) == IF n = 0 THEN 1 ELSE 10 * Power10(n - 1)

\* s.replace(ch, "")
Without(s, ch) == SelectSeq(s, LAMBDA c : c # ch)

RECURSIVE strip(_)
\* s.strip()
strip(s) ==
    IF Len(s) > 0 /\ s[1] = " " THEN strip(Tail(s))
    ELSE IF Len(s) > 0 /\ s[Len(s)] = " " THEN strip(SubSeq(s, 1, Len(s) - 1))
    ELSE s

\* s.upper()
upper(s) ==
    [i \in 1..Len(s) |->
        CASE s[i] = "k" -> "K" [] s[i] = "m" -> "M" [] s[i] = "b" -> "B"
          [] s[i] = "n" -> "N" [] s[i] = "a" -> "A" [] OTHER -> s[i]]

Contains(s, ch) == \E i \in 1..Len(s) : s[i] = ch

\* int(s): the value, or ValueError (ok = FALSE).  Blanks around the digits
\* are accepted.
py_int(s) ==
    LET t == strip(s)
    IN IF Len(t) > 0 /\ \A i \in 1..Len(t) : IsDigit(t[i])
       THEN [ok |-> TRUE, value |-> DigitsValue(t)]
       ELSE [ok |-> FALSE, value |-> 0]

\* float(s) for a decimal numeral: the decimal num / den it writes, or
\* ValueError (ok = FALSE).
py_float(s) ==
    LET t == strip(s)
        dots == {i \in 1..Len(t) : t[i] = "."}
        digits == Without(t, ".")
    IN IF /\ Cardinality(dots) <= 1
          /\ Len(digits) > 0
          /\ \A i \in 1..Len(digits) : IsDigit(digits[i])
       THEN [ok |-> TRUE, num |-> DigitsValue(digits),
             den |-> IF dots = {} THEN 1
                     ELSE Power10(Len(t) - (CHOOSE i \in dots : TRUE))]
       ELSE [ok |-> FALSE, num |-> 0, den |-> 1]

\* The decimals num / den whose nearest double, times k, is a double just
\* below the exact product: 32.3 * 1000 is 32299.999999999996.
BelowExact == {<<323, 10>>}

\* int(float(s) * k) for f = float(s)
int_of_product(f, k) ==
    LET exact == IF k % f.den = 0 THEN f.num * (k \div f.den)
                 ELSE (f.num * k) \div f.den
    IN IF <<f.num, f.den>> \in BelowExact THEN exact - 1 ELSE exact

\* The shape the normalisers share: the first suffix of `table` found in t
\* scales float(t without it); a text without suffix goes to int, or to
\* int(float()) when plain_float; every ValueError gives 0.
suffix_scaled(t, table, plain_float) ==
    LET hits == {i \in 1..Len(table) : Contains(t, table[i][1])}
    IN IF hits # {}
       THEN LET i == CHOOSE h \in hits : \A g \in hits : h <= g
                f == py_float(Without(t, table[i][1]))
            IN IF f.ok THEN int_of_product(f, table[i][2]) ELSE 0
       ELSE IF plain_float
            THEN (IF py_float(t).ok THEN py_float(t).num \div py_float(t).den ELSE 0)
            ELSE py_int(t).value

\* _extract_int of the Twitter scraper
extract_int(text) ==
    suffix_scaled(upper(strip(Without(text, ","))),
                  <<(<<"K", thousand>>), (<<"M", million>>)>>, FALSE)

\* to_int of _parse_tiktok_profile
to_int(s) ==
    suffix_scaled(Without(upper(s), ","),
                  <<(<<"K", thousand>>), (<<"M", million>>), (<<"B", billion>>)>>, FALSE)

\* to_int of extract_tiktok_posts_from_html
to_int_posts(s) ==
    suffix_scaled(Without(upper(s), ","),
                  <<(<<"K", thousand>>), (<<"M", million>>)>>, FALSE)

\* _to_int_safe of the Instagram scraper
to_int_safe(value) ==
    IF Len(value) = 0 THEN 0
    ELSE suffix_scaled(upper(strip(Without(value, ","))),
                       <<(<<"K", thousand>>), (<<"M", million>>), (<<"B", billion>>)>>, TRUE)

\* Counter texts, each with the count it writes (means; -1 for none): a
\* whole part, tenths and a suffix, or a text that is no count.
CounterTexts ==
    LET wholes == {[chars |-> <<"1">>, value |-> 1], [chars |-> <<"3">>, value |-> 3],
                   [chars |-> <<"3", "2">>, value |-> 32],
                   [chars |-> <<"1", ",", "0", "2", "4">>, value |-> 1024]}
        fracs == {[chars |-> <<>>, tenths |-> 0], [chars |-> <<".", "2">>, tenths |-> 2],
                  [chars |-> <<".", "3">>, tenths |-> 3], [chars |-> <<".", "4">>, tenths |-> 4]}
        suffixes == {[chars |-> <<>>, factor |-> 1], [chars |-> <<"K">>, factor |-> thousand],
                     [chars |-> <<"k">>, factor |-> thousand],
                     [chars |-> <<"M">>, factor |-> million],
                     [chars |-> <<"B">>, factor |-> billion]}
        written == {t \in wholes \X fracs \X suffixes :
                        t[3].factor = billion => t[1].value = 1}
    IN {[text |-> t[1].chars \o t[2].chars \o t[3].chars,
         means |-> IF t[3].factor = 1
                   THEN (IF t[2].tenths = 0 THEN t[1].value ELSE 0 - 1)
                   ELSE t[1].value * t[3].factor
                           + t[2].tenths * (t[3].factor \div 10)] : t \in written}
      \cup {[text |-> t, means |-> 0 - 1] :
                t \in {<<>>, <<"n", "/", "a">>, <<" ">>, <<"-">>}}
      \cup {[text |-> <<" ", "7", " ">>, means |-> 7]}

NormaliserInit ==
    /\ calc \in {[op |-> "text", in |-> c] : c \in CounterTexts}
    /\ key \in [handle : Handles, platform : {"Twitter"}]
    /\ profiles = {}
    /\ accounts = {}
    /\ posts = {}
    /\ analyses = {}
    /\ analysisQ = {}
    /\ jobs = [j \in JobIds |-> IdleJob]

normalised(by, value) ==
    /\ calc.op = "text"
    /\ calc' = [op |-> by, in |-> calc.in, out |-> value]
    /\ UNCHANGED <<key, profiles, accounts, posts, analyses, analysisQ, jobs>>

NormaliserNext ==
    \/ normalised("_extract_int", extract_int(calc.in.text))
    \/ normalised("to_int", to_int(calc.in.text))
    \/ normalised("to_int (posts)", to_int_posts(calc.in.text))
    \/ normalised("_to_int_safe", to_int_safe(calc.in.text))

NormaliserSpec == NormaliserInit /\ [][NormaliserNext]_vars

\* C17: every normaliser maps a count written with K, M or B, or plainly with
\* thousands separators, to the count, and a text that is no count to 0.
C17_SuffixTable ==
    calc.op \in {"_extract_int", "to_int", "to_int (posts)", "_to_int_safe"} =>
        calc.out = IF calc.in.means >= 0 THEN calc.in.means ELSE 0

\* C18: in every reachable state a profile has at most one account row per
\* platform, concurrent fetches and searches of one pair included.
C18_OneSnapshot ==
    \A a \in accounts, b \in accounts :
        (a.profile = b.profile /\ a.platform = b.platform) => a = b

\* C19: when an ingestion has succeeded, the profile's posts_count is the
\* number of post rows stored for the profile.
C19_PostsCountMatches ==
    [][\A j \in JobIds :
          (jobs[j].state = "running" /\ jobs'[j].state = "succeeded") =>
              \A r \in ProfileRows(profiles', key.handle, key.platform) :
                  r.posts_count = Cardinality(PostRows(posts', r.id, r.platform))]_vars

-----------------------------------------------------------------------------
(* The pipeline with a note of the last search request: the platform asked *)
(* for and, for the synchronous Twitter fetch, whether it found the user.  *)
(* A purge withdraws the note.                                             *)

Requested(p, found) == [op |-> "search", platform |-> p, found |-> found]

SearchNext ==
    \/ \E found \in BOOLEAN :
          /\ search_profile_twitter(key.handle, key.platform, found)
          /\ calc' = Requested(key.platform, found)
    \/ search_profile_github(key.handle, key.platform)
          /\ calc' = Requested(key.platform, TRUE)
    \/ search_profile_async(key.handle, key.platform)
          /\ calc' = Requested(key.platform, TRUE)
    \/ send_task(key.handle, key.platform) /\ UNCHANGED calc
    \/ \E ret \in BOOLEAN : unscrape(key.handle, key.platform, ret) /\ calc' = NoCalc
    \/ \E pid \in analysisQ : perform_behavioral_analysis(pid) /\ UNCHANGED calc
    \/ \E j \in JobIds : WorkerStep(j)

SearchSpec == Init /\ [][SearchNext]_vars

\* C20: once a fetch of (handle, platform) has been requested through the
\* search entry point, a Profile row of the pair is stored, whether the fetch
\* succeeded or failed.
C20_ProfileAfterRequest ==
    calc.op = "search" => ProfileRows(profiles, key.handle, key.platform) # {}

\* C21: once a failed fetch has stored the placeholder of (handle, platform),
\* a repeated search of the pair enqueues no fetch job, and a job that was
\* marked failed is not run again.
C21_NoRefetchAfterPlaceholder ==
    [][(/\ PlaceholderStored(profiles, accounts, key.handle, key.platform)
        /\ \E j \in JobIds : jobs[j].state = "failed")
          => /\ search_profile_async(key.handle, key.platform) => jobs' = jobs
             /\ \A j \in JobIds : jobs[j].state = "failed" => jobs'[j].state = "failed"]_vars

-----------------------------------------------------------------------------
(* perform_behavioral_analysis from its assignments to analysis.save(),    *)
(* and a later reader of the stored row.  Influence scores are integers,   *)
(* in hundredths.                                                          *)

\* The concrete fields of the BehavioralAnalysis model, profile and id aside.
BehavioralAnalysisFields ==
    {"avg_post_time", "most_active_days", "sentiment_score", "top_keywords",
     "geo_locations", "network_size", "network_density", "interests", "analyzed_at"}

\* The influence score the branch of platform p assigns: `engagement` is the
\* sum of the likes and comments of the stored posts, `repos` is
\* sm.public_repos, `score` the sentiment score, n the number of captions.
influence_score(p, sm, score, n, engagement, repos) ==
    LET followers == IF sm # <<>> THEN sm[1].followers ELSE 0
        following == IF sm # <<>> THEN sm[1].following ELSE 0
    IN CASE p = "GitHub" -> 60 * followers + 40 * repos
         [] p = "TikTok" ->
               round_half_even(70 * followers * (IF n > 1 THEN n ELSE 1) + 30 * engagement,
                               IF n > 1 THEN n ELSE 1)
         [] OTHER -> ((followers + following) * (score + 1000)) \div 10

\* The attributes the task has assigned on `analysis` when it calls save().
analysis_attributes(p, sm, stored, company, blog, fetched, engagement, repos) ==
    LET f == analysis_fields(p, sm, stored, company, blog, fetched)
        captions == IF p = "Instagram" /\ Len(stored) = 0
                    THEN fetched ELSE [i \in 1..Len(stored) |-> stored[i].content]
        dist == compute_sentiment_distribution(captions)
        influence == influence_score(p, sm, f.sentiment_score, Len(captions),
                                     engagement, repos)
    IN IF p = "GitHub"
       THEN f @@ [influence_score |-> influence]
       ELSE f @@ [influence_score |-> influence,
                  sentiment_distribution |->
                      [positive |-> dist.positive, neutral |-> dist.neutral,
                       negative |-> dist.negative]]

\* Model.save(): the row holds the values of the model's fields; any other
\* attribute of the Python object is not written.
save(attrs) == [n \in DOMAIN attrs \cap BehavioralAnalysisFields |-> attrs[n]]

\* getattr(row, name, None) on the instance a later query loads: <<>> for None
getattr(row, name) == IF name \in DOMAIN row THEN <<row[name]>> ELSE <<>>

StoredAnalysisInputs ==
    {x \in [in : AnalysisInputs, engagement : {0, 5}, repos : {0, 6}] :
        /\ x.in.platform # "TikTok" => x.engagement = 0
        /\ x.in.platform # "GitHub" => x.repos = 0}

StoredAnalysisInit ==
    /\ calc \in {[op |-> "run", in |-> x] : x \in StoredAnalysisInputs}
    /\ key = [handle |-> "alice", platform |-> calc.in.in.platform]
    /\ profiles = {}
    /\ accounts = {}
    /\ posts = {}
    /\ analyses = {}
    /\ analysisQ = {}
    /\ jobs = [j \in JobIds |-> IdleJob]

\* The task computes, assigns and saves.
analysis_save ==
    /\ calc.op = "run"
    /\ LET i == calc.in.in
           attrs == analysis_attributes(i.platform, i.sm, i.posts, i.company, i.blog,
                                        i.fetched, calc.in.engagement, calc.in.repos)
       IN calc' = [op |-> "saved", in |-> calc.in, attrs |-> attrs, row |-> save(attrs)]
    /\ UNCHANGED <<key, profiles, accounts, posts, analyses, analysisQ, jobs>>

\* behavioral_dashboard loads the row and reads it.
dashboard_read ==
    /\ calc.op = "saved"
    /\ calc' = [op |-> "read", in |-> calc.in, attrs |-> calc.attrs, row |-> calc.row,
                influence_score |-> getattr(calc.row, "influence_score"),
                sentiment_distribution |-> getattr(calc.row, "sentiment_distribution")]
    /\ UNCHANGED <<key, profiles, accounts, posts, analyses, analysisQ, jobs>>

StoredAnalysisSpec == StoredAnalysisInit /\ [][analysis_save \/ dashboard_read]_vars

\* C22: after an analysis run, a reader of the profile's BehavioralAnalysis
\* row gets the influence score and the sentiment distribution the run
\* computed.
C22_ReadBackComputed ==
    calc.op = "read" =>
        /\ calc.influence_score = <<calc.attrs.influence_score>>
        /\ "sentiment_distribution" \in DOMAIN calc.attrs =>
              calc.sentiment_distribution = <<calc.attrs.sentiment_distribution>>

-----------------------------------------------------------------------------
(* compute_posting_patterns applied to the timestamps of a profile's posts, *)
(* in the order the query returns them.  A timestamp is its hour and its   *)
(* weekday name.                                                           *)

MaxStamps == 4

most_active_days_limit == 3

\* The index of Series.value_counts(): the distinct values of `seq`, counts
\* descending; the sort keeps values of equal count in the order in which
\* they first appear in `seq`.
value_counts_index(seq) ==
    LET all == {seq[i] : i \in 1..Len(seq)}
        n == Cardinality(all)
        first(v) == CHOOSE i \in 1..Len(seq) : seq[i] = v /\ \A k \in 1..(i - 1) : seq[k] # v
    IN CHOOSE q \in [1..n -> all] :
           \A i \in 1..n : \A j \in (i + 1)..n :
               \/ Occurrences(seq, q[i]) > Occurrences(seq, q[j])
               \/ /\ Occurrences(seq, q[i]) = Occurrences(seq, q[j])
                  /\ first(q[i]) < first(q[j])

\* posts_df["weekday"].value_counts().head(3).index.tolist()
most_active_days(weekdays) == Prefix(value_counts_index(weekdays), most_active_days_limit)

PatternInit ==
    /\ calc \in {[op |-> "timestamps", in |-> s] :
                    s \in SeqsUpTo([hour : {9, 21},
                                    weekday : {"Monday", "Wednesday", "Saturday", "Sunday"}],
                                   MaxStamps) \ {<<>>}}
    /\ key \in [handle : Handles, platform : {"Twitter"}]
    /\ profiles = {}
    /\ accounts = {}
    /\ posts = {}
    /\ analyses = {}
    /\ analysisQ = {}
    /\ jobs = [j \in JobIds |-> IdleJob]

posting_patterns ==
    /\ calc.op = "timestamps"
    /\ calc' = [op |-> "patterns", in |-> calc.in,
                avg_post_time |-> compute_posting_patterns(calc.in),
                most_active_days |->
                    most_active_days([i \in 1..Len(calc.in) |-> calc.in[i].weekday])]
    /\ UNCHANGED <<key, profiles, accounts, posts, analyses, analysisQ, jobs>>

PatternSpec == PatternInit /\ [][posting_patterns]_vars

\* C23: for a non-empty list of timestamps the average post hour is the most
\* frequent hour, the smallest one among equals, and the most active days are
\* the at most three weekdays with the most posts, counts descending, equal
\* counts in the order Monday to Sunday.
C23_ModeAndTopDays ==
    calc.op = "patterns" =>
        LET n == Len(calc.in)
            hours == [i \in 1..n |-> calc.in[i].hour]
            days == [i \in 1..n |-> calc.in[i].weekday]
            index(d) == CASE d = "Monday" -> 0 [] d = "Wednesday" -> 2
                          [] d = "Saturday" -> 5 [] OTHER -> 6
            before(a, b) == \/ Occurrences(days, a) > Occurrences(days, b)
                            \/ /\ Occurrences(days, a) = Occurrences(days, b)
                               /\ index(a) < index(b)
            out == calc.most_active_days
            listed == {out[i] : i \in 1..Len(out)}
            distinct == {days[i] : i \in 1..n}
        IN /\ \E h \in {hours[i] : i \in 1..n} :
                 /\ calc.avg_post_time = ToString(h) \o ":00"
                 /\ \A g \in {hours[i] : i \in 1..n} :
                       \/ Occurrences(hours, h) > Occurrences(hours, g)
                       \/ Occurrences(hours, h) = Occurrences(hours, g) /\ h <= g
           /\ Len(out) = Min(most_active_days_limit, Cardinality(distinct))
           /\ \A i \in 1..Len(out) : \A j \in (i + 1)..Len(out) : before(out[i], out[j])
           /\ \A d \in distinct \ listed : \A i \in 1..Len(out) : before(out[i], d)

-----------------------------------------------------------------------------
(* perform_behavioral_analysis run again on an unchanged store.  What the  *)
(* secondary caption source returns is no part of the store: each run that *)
(* asks it gets the captions it then serves.                               *)

MaxRuns == 2

RerunInit ==
    /\ calc \in {[op |-> "runs", in |-> x, runs |-> <<>>] :
                    x \in {y \in StoredAnalysisInputs : y.in.fetched = <<>>}}
    /\ key = [handle |-> "alice", platform |-> calc.in.in.platform]
    /\ profiles = {}
    /\ accounts = {}
    /\ posts = {}
    /\ analyses = {}
    /\ analysisQ = {}
    /\ jobs = [j \in JobIds |-> IdleJob]

\* One more run of the task on the stored input; the Instagram branch asks
\* the secondary source when no post is stored.
analysis_rerun ==
    LET i == calc.in.in
        asked == i.platform = "Instagram" /\ Len(i.posts) = 0
    IN
    /\ calc.op = "runs"
    /\ Len(calc.runs) < MaxRuns
    /\ \E fetched \in IF asked THEN {<<>>, <<Text("good code", 700)>>} ELSE {<<>>} :
          calc' = [calc EXCEPT !.runs =
                      Append(@, analysis_attributes(i.platform, i.sm, i.posts, i.company,
                                                    i.blog, fetched, calc.in.engagement,
                                                    calc.in.repos))]
    /\ UNCHANGED <<key, profiles, accounts, posts, analyses, analysisQ, jobs>>

RerunSpec == RerunInit /\ [][analysis_rerun]_vars

\* C24: two analysis runs from the same stored posts and the same snapshot
\* give the same influence score, sentiment score, keywords and posting
\* pattern, and the run of a profile without posts yields an influence score.
C24_Deterministic ==
    calc.op = "runs" =>
        \A a \in 1..Len(calc.runs) :
            /\ "influence_score" \in DOMAIN calc.runs[a]
            /\ \A b \in 1..Len(calc.runs) :
                  /\ calc.runs[a].influence_score = calc.runs[b].influence_score
                  /\ calc.runs[a].sentiment_score = calc.runs[b].sentiment_score
                  /\ calc.runs[a].top_keywords = calc.runs[b].top_keywords
                  /\ calc.runs[a].avg_post_time = calc.runs[b].avg_post_time

-----------------------------------------------------------------------------
(* The HTML fetch of the three source fetchers.  A response is its status  *)
(* (0: the request raised) and whether its body holds the platform's       *)
(* marker.  `primary` are the responses of the ScrapingBee requests in the *)
(* order tried, `fallback` those of the fallback (one Playwright page, or  *)
(* the Nitter mirrors in the order tried).  A result is the response whose *)
(* body is returned (<<>> for None) and the label.                         *)

MaxTries == 2

Responses ==
    {[status |-> 200, marker |-> TRUE], [status |-> 200, marker |-> FALSE],
     [status |-> 403, marker |-> FALSE], [status |-> 0, marker |-> FALSE]}

\* The loop over the ScrapingBee requests: the first response with status
\* 200 and the marker, <<>> for none.
first_marked(primary) ==
    LET hits == {i \in 1..Len(primary) : primary[i].status = 200 /\ primary[i].marker}
    IN IF hits = {} THEN <<>>
       ELSE <<primary[CHOOSE i \in hits : \A k \in hits : i <= k]>>

\* _fetch_tiktok_html: marker "SIGI_STATE"; the Playwright page is returned
\* as it is.
fetch_tiktok_html(primary, fallback) ==
    IF first_marked(primary) # <<>>
    THEN [html |-> first_marked(primary), label |-> "ScrapingBee"]
    ELSE IF Len(fallback) = 0 \/ fallback[1].status = 0
    THEN [html |-> <<>>, label |-> "Failed"]
    ELSE [html |-> <<fallback[1]>>, label |-> "Playwright (fallback)"]

\* _fetch_instagram_html: marker "og:title" or "og:description"
fetch_instagram_html(primary, fallback) ==
    IF first_marked(primary) # <<>>
    THEN [html |-> first_marked(primary), label |-> "ScrapingBee"]
    ELSE IF Len(fallback) = 0 \/ fallback[1].status = 0
    THEN [html |-> <<>>, label |-> "Failed"]
    ELSE [html |-> <<fallback[1]>>,
          label |-> IF fallback[1].marker THEN "Playwright (fallback)"
                    ELSE "Playwright (empty)"]

\* scrape_twitter_profile, lines 81-111: one ScrapingBee request, marker
\* "data-testid"; then the first Nitter mirror that answers 200.
fetch_twitter_html(primary, fallback) ==
    LET up == {i \in 1..Len(fallback) : fallback[i].status = 200}
    IN IF first_marked(Prefix(primary, 1)) # <<>>
       THEN [html |-> first_marked(Prefix(primary, 1)), label |-> "twitter"]
       ELSE IF up = {} THEN [html |-> <<>>, label |-> "error"]
       ELSE [html |-> <<fallback[CHOOSE i \in up : \A k \in up : i <= k]>>,
             label |-> "nitter"]

FetchInit ==
    /\ key \in [handle : Handles, platform : TaskPlatforms]
    /\ calc \in {[op |-> "responses", primary |-> a, fallback |-> b] :
                    a \in SeqsUpTo(Responses, MaxTries),
                    b \in SeqsUpTo(Responses, MaxTries)}
    /\ key.platform = "Twitter" => Len(calc.primary) = 1
    /\ key.platform # "Twitter" => Len(calc.fallback) <= 1
    /\ profiles = {}
    /\ accounts = {}
    /\ posts = {}
    /\ analyses = {}
    /\ analysisQ = {}
    /\ jobs = [j \in JobIds |-> IdleJob]

fetch_html ==
    /\ calc.op = "responses"
    /\ calc' = [op |-> "fetched", primary |-> calc.primary, fallback |-> calc.fallback,
                out |-> CASE key.platform = "TikTok" ->
                                 fetch_tiktok_html(calc.primary, calc.fallback)
                          [] key.platform = "Instagram" ->
                                 fetch_instagram_html(calc.primary, calc.fallback)
                          [] OTHER -> fetch_twitter_html(calc.primary, calc.fallback)]
    /\ UNCHANGED <<key, profiles, accounts, posts, analyses, analysisQ, jobs>>

FetchSpec == FetchInit /\ [][fetch_html]_vars

\* C25: the backends are tried in order, the primary requests before the
\* fallback; the HTML returned is the first response in that order that holds
\* the marker, the label names the strategy it came from, and a response
\* without the marker is never returned.
C25_FirstMarkedWins ==
    calc.op = "fetched" =>
        LET tried == calc.primary \o calc.fallback
            marked == {i \in 1..Len(tried) : tried[i].status = 200 /\ tried[i].marker}
            first == CHOOSE i \in marked : \A k \in marked : i <= k
        IN IF marked = {} THEN calc.out.html = <<>>
           ELSE /\ calc.out.html = <<tried[first]>>
                /\ calc.out.label \in
                      IF first <= Len(calc.primary) THEN {"ScrapingBee", "twitter"}
                      ELSE {"Playwright (fallback)", "nitter"}

-----------------------------------------------------------------------------
\* C26: generate_entity_graph returns None exactly when the profile has no
\* post or no post of the profile holds two distinct entities; in every other
\* case it returns a graph.
C26_NoneIffEmpty ==
    calc.op = "graph" =>
        (calc.out.built <=>
            \E i \in 1..Len(calc.in) :
                Cardinality({calc.in[i][k] : k \in 1..Len(calc.in[i])}) >= 2)

-----------------------------------------------------------------------------
(* generate_entity_graph after the graph is built: community detection,    *)
(* the labelled nodes and the cluster summaries.  What                     *)
(* greedy_modularity_communities returns is an input: a list of disjoint   *)
(* node sets that cover the graph, or an exception.  So is the order in    *)
(* which a subgraph lists its nodes.                                       *)

MaxCommunities == 2

label_top == 3
summary_top == 5

\* list(greedy_modularity_communities(G)), [set(G.nodes())] when it raised
communities_of(nodes, detected, raised) == IF raised THEN <<nodes>> ELSE detected

\* sorted(G.subgraph(comm).degree, key=lambda x: x[1], reverse=True)[:k]: the
\* sort is stable, nodes of equal degree stay in the order `order` lists them
top_nodes(G, comm, order, k) ==
    LET degree(n) == Cardinality({e \in DOMAIN G : n \in e /\ e \subseteq comm})
        pos(n) == CHOOSE i \in 1..Len(order) : order[i] = n
        sorted == CHOOSE q \in [1..Cardinality(comm) -> comm] :
                      \A i \in 1..Cardinality(comm) : \A j \in (i + 1)..Cardinality(comm) :
                          \/ degree(q[i]) > degree(q[j])
                          \/ degree(q[i]) = degree(q[j]) /\ pos(q[i]) < pos(q[j])
    IN Prefix(sorted, k)

\* label_nodes: the nodes that keep their label
label_nodes(G, communities, order) ==
    UNION {{top_nodes(G, communities[i], order, label_top)[k] :
               k \in 1..Len(top_nodes(G, communities[i], order, label_top))} :
           i \in 1..Len(communities)}

\* cluster_summaries: "Cluster {i+1}: Top entities — {top_list}"
cluster_summaries(G, communities, order) ==
    [i \in 1..Len(communities) |->
        [cluster |-> i, top_list |-> top_nodes(G, communities[i], order, summary_top)]]

ClusterInit ==
    /\ key \in [handle : Handles, platform : {"Twitter"}]
    /\ calc \in UNION {
          LET G == entity_edges(<<>>, ents)
              nodes == UNION DOMAIN G
          IN {[op |-> "built", graph |-> G, detected |-> c, raised |-> r, order |-> o] :
                 c \in {q \in SeqsUpTo(SUBSET nodes \ {{}}, MaxCommunities) :
                           /\ UNION {q[i] : i \in 1..Len(q)} = nodes
                           /\ \A i \in 1..Len(q) : \A j \in 1..Len(q) :
                                 i # j => q[i] \cap q[j] = {}},
                 r \in BOOLEAN,
                 o \in {q \in [1..Cardinality(nodes) -> nodes] :
                           \A i \in 1..Cardinality(nodes) :
                               \A j \in 1..Cardinality(nodes) : q[i] = q[j] => i = j}} :
          ents \in SeqsUpTo({<<"#ai", "OpenAI">>, <<"GPT", "@bob">>,
                             <<"#ai", "OpenAI", "GPT", "@bob">>}, 2) \ {<<>>}}
    /\ profiles = {}
    /\ accounts = {}
    /\ posts = {}
    /\ analyses = {}
    /\ analysisQ = {}
    /\ jobs = [j \in JobIds |-> IdleJob]

cluster_graph ==
    /\ calc.op = "built"
    /\ LET communities == communities_of(UNION DOMAIN calc.graph, calc.detected, calc.raised)
       IN calc' = [op |-> "clustered", graph |-> calc.graph, raised |-> calc.raised,
                   order |-> calc.order, communities |-> communities,
                   label_nodes |-> label_nodes(calc.graph, communities, calc.order),
                   cluster_summaries |->
                       cluster_summaries(calc.graph, communities, calc.order)]
    /\ UNCHANGED <<key, profiles, accounts, posts, analyses, analysisQ, jobs>>

ClusterSpec == ClusterInit /\ [][cluster_graph]_vars

\* C27: a non-empty graph gets one summary per community, in community
\* order; each summary lists the community's top three nodes by degree within
\* the community, the nodes that keep their label; when detection fails the
\* one community holds every node.
C27_SummaryPerCommunity ==
    calc.op = "clustered" =>
        /\ Len(calc.cluster_summaries) = Len(calc.communities)
        /\ calc.raised => calc.communities = <<UNION DOMAIN calc.graph>>
        /\ \A i \in 1..Len(calc.communities) :
              LET s == calc.cluster_summaries[i]
                  listed == {s.top_list[k] : k \in 1..Len(s.top_list)}
              IN /\ s.cluster = i
                 /\ listed = calc.label_nodes \cap calc.communities[i]
                 /\ Len(s.top_list) = Min(3, Cardinality(calc.communities[i]))

-----------------------------------------------------------------------------
\* C28: when a fetch job has succeeded, the profile's avatar and the
\* snapshot's followers, following and collected-post count are the values
\* the fetcher parsed in that job, not defaults written after it returned.
C28_ParsedValuesKept ==
    [][\A j \in JobIds :
          (jobs[j].state = "running" /\ jobs'[j].state = "succeeded") =>
              \A r \in ProfileRows(profiles', jobs[j].username, jobs[j].platform) :
                  /\ r.avatar_url = Parsed(jobs[j].username).avatar
                  /\ \A a \in AccountRows(accounts', r.id, r.platform) :
                        /\ a.followers = Parsed(jobs[j].username).followers
                        /\ a.following = Parsed(jobs[j].username).following
                        /\ a.posts_collected >= Len(Parsed(jobs[j].username).posts)]_vars

-----------------------------------------------------------------------------
(* The post query shared by generate_entity_graph, generate_activity_heatmap *)
(* and generate_sentiment_distribution: the platform argument is           *)
(* capitalized, then compared with the platform the profiles are stored    *)
(* under.  A stored post is the username and platform of its profile.      *)

\* RawPost.objects.filter(profile__username=username[, profile__platform=...])
\* after platform = platform.capitalize()
posts_query(R, username, platform) ==
    LET asked == capitalize(platform)
    IN IF lower(asked) = "all"
       THEN {x \in R : x.username = username}
       ELSE {x \in R : x.username = username /\ x.platform = asked}

QueryInit ==
    /\ key \in [handle : Handles, platform : Platforms]
    /\ calc \in {[op |-> "stored", rows |-> R, platform |-> p] :
                    R \in SUBSET [username : Handles \cup {"bob"}, platform : Platforms],
                    p \in {key.platform, "all"}}
    /\ profiles = {}
    /\ accounts = {}
    /\ posts = {}
    /\ analyses = {}
    /\ analysisQ = {}
    /\ jobs = [j \in JobIds |-> IdleJob]

\* One of the three helpers runs its query for (key.handle, calc.platform).
select_posts ==
    /\ calc.op = "stored"
    /\ \E helper \in {"entity_graph", "activity_heatmap", "sentiment_distribution"} :
          calc' = [op |-> helper, rows |-> calc.rows, platform |-> calc.platform,
                   out |-> posts_query(calc.rows, key.handle, calc.platform)]
    /\ UNCHANGED <<key, profiles, accounts, posts, analyses, analysisQ, jobs>>

QuerySpec == QueryInit /\ [][select_posts]_vars

\* C29: called with the name a platform is stored under, a helper reads
\* exactly the posts of the profile with that username and platform; called
\* with "all" it reads the posts of every platform of the username.
C29_ReadsStoredPlatform ==
    calc.op \in {"entity_graph", "activity_heatmap", "sentiment_distribution"} =>
        calc.out = {x \in calc.rows :
                       /\ x.username = key.handle
                       /\ calc.platform # "all" => x.platform = calc.platform}

-----------------------------------------------------------------------------
(* get_twitter_profile and Django's cache.  Usernames are character        *)
(* sequences; the cache maps a lower-cased username to the entry stored    *)
(* for it (<<>>: none) with the time it was stored at.  Time is in         *)
(* seconds; between two calls it stands still or moves on by 1 s or by     *)
(* 3599 s.  calc.last is the last call: whether the API was contacted and  *)
(* what was returned (<<>> for None).                                      *)

MaxTicks == 3
MaxCalls == 3

cache_timeout == 3600

Usernames == {<<"G", "o">>, <<"g", "o">>, <<>>}

\* A cache that never expires its entries.
cache_get_stale(entries, k, now) == IF k \in DOMAIN entries THEN entries[k] ELSE <<>>

\* cache.get(cache_key) at time `now`: the entry set less than cache_timeout
\* seconds ago, None (<<>>) for a key never set or an expired entry
cache_get(entries, k, now) ==
    IF k \in DOMAIN entries /\ entries[k] # <<>>
          /\ now < entries[k][1].stored_at + cache_timeout
    THEN entries[k] ELSE <<>>

CacheInit ==
    /\ key \in [handle : Handles, platform : {"Twitter"}]
    /\ calc = [op |-> "cache", now |-> 0, ticks |-> 0, calls |-> 0,
               entries |-> [k \in {LowerSeq(u) : u \in Usernames \ {<<>>}} |-> <<>>],
               last |-> <<>>]
    /\ profiles = {}
    /\ accounts = {}
    /\ posts = {}
    /\ analyses = {}
    /\ analysisQ = {}
    /\ jobs = [j \in JobIds |-> IdleJob]

\* Time passes between two calls.
tick ==
    /\ calc.op = "cache"
    /\ calc.ticks < MaxTicks
    /\ \E d \in {1, cache_timeout - 1} :
          calc' = [calc EXCEPT !.now = @ + d, !.ticks = @ + 1]
    /\ UNCHANGED <<key, profiles, accounts, posts, analyses, analysisQ, jobs>>

\* get_twitter_profile(username); `answer` is what the Twitter API would
\* answer: the user's data, no user, or a TweepyException.
get_twitter_profile(username, answer) ==
    LET cache_key == LowerSeq(username)
        cached_profile == cache_get(calc.entries, cache_key, calc.now)
        call(api, ret) == <<[username |-> username, api |-> api, ret |-> ret]>>
    IN
    /\ calc.op = "cache"
    /\ calc.calls < MaxCalls
    /\ calc' =
          IF username = <<>>
          THEN [calc EXCEPT !.calls = @ + 1, !.last = call(FALSE, <<>>)]
          ELSE IF cached_profile # <<>>
          THEN [calc EXCEPT !.calls = @ + 1,
                            !.last = call(FALSE, <<cached_profile[1].value>>)]
          ELSE IF answer \in {"no user", "TweepyException"}
          THEN [calc EXCEPT !.calls = @ + 1, !.last = call(TRUE, <<>>)]
          ELSE [calc EXCEPT !.calls = @ + 1, !.last = call(TRUE, <<answer>>),
                            !.entries[cache_key] =
                                <<[value |-> answer, stored_at |-> calc.now]>>]
    /\ UNCHANGED <<key, profiles, accounts, posts, analyses, analysisQ, jobs>>

CacheSpec ==
    CacheInit /\ [][tick \/ \E u \in Usernames,
                               a \in {"data1", "data2", "no user", "TweepyException"} :
                                 get_twitter_profile(u, a)]_vars

\* C30: get_twitter_profile answers from the cache, the API not contacted,
\* exactly when an entry for the lower-cased username was stored less than
\* 3600 s before, and then returns that entry; every other call of a
\* username contacts the API; only a successful lookup is stored, so a failed
\* one is never served from the cache.
C30_CacheWindow ==
    [][calc'.calls = calc.calls + 1 =>
          LET c == calc'.last[1]
              k == LowerSeq(c.username)
              fresh == /\ k \in DOMAIN calc.entries
                       /\ calc.entries[k] # <<>>
                       /\ calc.now - calc.entries[k][1].stored_at < 3600
          IN /\ fresh => ~c.api /\ c.ret = <<calc.entries[k][1].value>>
             /\ (~fresh /\ c.username # <<>>) => c.api
             /\ (c.api /\ c.ret # <<>>) =>
                   calc'.entries[k] = <<[value |-> c.ret[1], stored_at |-> calc.now]>>
             /\ c.ret = <<>> => calc'.entries = calc.entries
             /\ ~c.api => calc'.entries = calc.entries]_vars

\* A call was answered from the cache, the API not contacted, 3599 s after
\* the entry was stored.
C30_Witness ==
    /\ calc.op = "cache"
    /\ calc.last # <<>>
    /\ ~calc.last[1].api
    /\ calc.last[1].username = <<"g", "o">>
    /\ calc.entries[<<"g", "o">>] # <<>>
    /\ calc.last[1].ret = <<calc.entries[<<"g", "o">>][1].value>>
    /\ calc.now - calc.entries[<<"g", "o">>][1].stored_at = cache_timeout - 1

====
